---- MODULE Spec2Model ----
(***************************************************************************)
(* Model of Task_1 of lewah/DS_Python_Task: the best-fit selection         *)
(* (FunctionSelection.find_best_fit), the deviation table                  *)
(* (TestDataMapper.compute_max_deviation), the test-point assignment       *)
(* (TestDataMapper.map_test_data) and the pipeline of main().              *)
(*                                                                         *)
(* Numbers.  Table cells are integers.  A sum of squared errors is an      *)
(* integer; a mean squared error is kept in units of 1/10000, which is     *)
(* what round(x, 4) leaves.  float('inf') is Inf, a number above every     *)
(* finite value the bounds allow.  deviation <= sqrt(2) * m is decided as  *)
(* deviation^2 <= 2 * m^2, which is the same comparison for non-negative   *)
(* integers.                                                               *)
(*                                                                         *)
(* Tables.  A DataFrame is a record [x, y]: x is the x column and y the    *)
(* sequence of the columns whose name starts with 'y', in table order;     *)
(* column k of y is the column named y<k>.  All columns of one DataFrame   *)
(* have the length of x.  Every table has at least one row.  None is the   *)
(* Python None, used where the code stores None for a column name.         *)
(*                                                                         *)
(* Files and database.  files is the set of CSV files that exist; the      *)
(* content of train.csv, ideal.csv and test.csv is train_data, ideal_data  *)
(* and test_data, row by row.  db is the SQLite database: for every table  *)
(* name, whether the table exists and its rows.  loaded is the set of      *)
(* datasets for which main() constructed a DatasetManager.                 *)
(***************************************************************************)
EXTENDS Integers, Sequences, FiniteSets, TLC

VARIABLES files, loaded, db, train_data, ideal_data, test_data, live,
          selected_functions, max_deviation, computed, mapped_data, saved,
          ret, pc

vars == <<files, loaded, db, train_data, ideal_data, test_data, live,
          selected_functions, max_deviation, computed, mapped_data, saved,
          ret, pc>>

\* the three tables, which no step after the load writes
tables == <<train_data, ideal_data, test_data>>

\* what the methods of a mapper never touch
outside == <<files, loaded, db, tables, mapped_data, saved>>

\* ---------------------------------------------------------------- bounds
MaxVal == 2
MaxRows == 2
MaxTrain == 2
MaxIdeal == 2
MaxTest == 1
MaxCells == 5
MaxStreak == 2
WideTrain == 5
MaxBatch == 3
BatchVal == 1
LongRows == 3

\* ------------------------------------------------------ program constants
None == 0
Inf == 1000000000
TopN == 4
Digits == 10000

Mappers == {"test_mapper", "viz_mapper"}

\* ---------------------------------------------------------------- helpers
Abs(v) == IF v < 0 THEN 0 - v ELSE v

Min2(a, b) == IF a <= b THEN a ELSE b

NumCols(df) == Len(df.y)

NumRows(df) == Len(df.x)

EmptyDict == [k \in {} |-> 0]

\* d[k] = v of a Python dict
Put(d, k, v) == [q \in (DOMAIN d) \cup {k} |-> IF q = k THEN v ELSE d[q]]

DictValues(d) == {d[k] : k \in DOMAIN d}

\* every iteration order a Python set of these elements may have
Orders(S) == {s \in [1..Cardinality(S) -> S] : \A i, j \in 1..Cardinality(S) : s[i] = s[j] => i = j}

\* ------------------------------------------------- find_best_fit (mapping.py)
RECURSIVE SumSq(_, _, _)
SumSq(a, b, i) == IF i = 0 THEN 0 ELSE SumSq(a, b, i - 1) + (a[i] - b[i]) * (a[i] - b[i])

\* np.sum((y_train - y_ideal) ** 2)
SSE(y_train, y_ideal) == SumSq(y_train, y_ideal, Len(y_train))

\* the comparison turned round once a first candidate is held
ImprovesTurned(sse, min_sse) == min_sse = Inf \/ sse > min_sse

\* a candidate as good as the one held replaces it
ImprovesOrEqual(sse, min_sse) == sse <= min_sse

\* sse < min_sse
Improves(sse, min_sse) == sse < min_sse

\* len(y_train) != len(y_ideal)
ShapeMismatch(y_train, y_ideal) == Len(y_train) # Len(y_ideal)

\* the loop over y_ideal_cols for one training column, from ideal column j on
RECURSIVE ScanIdeal(_, _, _, _)
ScanIdeal(y_train, ideal, j, acc) ==
    IF j > NumCols(ideal) THEN acc
    ELSE IF ShapeMismatch(y_train, ideal.y[j]) THEN ScanIdeal(y_train, ideal, j + 1, acc)
    ELSE LET sse == SSE(y_train, ideal.y[j])
         IN  IF Improves(sse, acc.min_sse)
             THEN ScanIdeal(y_train, ideal, j + 1, [min_sse |-> sse, best_match |-> j])
             ELSE ScanIdeal(y_train, ideal, j + 1, acc)

\* the digits after the fourth are cut off
Round4Down(min_sse, n) == IF min_sse = Inf THEN Inf ELSE (min_sse * Digits) \div n

\* round(min_sse / len(y_train), 4), in units of 1/10000, ties to even
Round4(min_sse, n) ==
    IF min_sse = Inf THEN Inf
    ELSE LET q == (min_sse * Digits) \div n
             r == (min_sse * Digits) % n
         IN  IF 2 * r < n THEN q
             ELSE IF 2 * r > n THEN q + 1
             ELSE IF q % 2 = 0 THEN q ELSE q + 1

\* best_fits[train_col] = (best_match, round(min_sse / len(y_train), 4))
BestFitOf(train, ideal, c) ==
    LET acc == ScanIdeal(train.y[c], ideal, 1, [min_sse |-> Inf, best_match |-> None])
    IN  [train |-> c, ideal |-> acc.best_match, mse |-> Round4(acc.min_sse, Len(train.y[c]))]

\* the dict best_fits after the loop over y_train_cols, in insertion order
AllBestFits(train, ideal) == [c \in 1..NumCols(train) |-> BestFitOf(train, ideal, c)]

\* sorted(..., key=lambda x: x[1][1]) is stable: insert e behind every entry <= e
RECURSIVE InsertByMse(_, _)
InsertByMse(s, e) ==
    IF s = <<>> THEN <<e>>
    ELSE IF s[Len(s)].mse <= e.mse THEN Append(s, e)
    ELSE Append(InsertByMse(SubSeq(s, 1, Len(s) - 1), e), s[Len(s)])

\* the ranking left unsorted
SortedByMseSkipped(s) == s

RECURSIVE SortedByMse(_)
SortedByMse(s) ==
    IF s = <<>> THEN <<>>
    ELSE InsertByMse(SortedByMse(SubSeq(s, 1, Len(s) - 1)), s[Len(s)])

\* [:4]
Top(s) == SubSeq(s, 1, Min2(TopN, Len(s)))

\* the dict find_best_fit returns, as the sequence of its items
FindBestFit(train, ideal) == Top(SortedByMse(AllBestFits(train, ideal)))

\* ----------------------------------------- compute_max_deviation (mapping.py)
RECURSIVE MaxAbs(_, _, _)
MaxAbs(a, b, i) ==
    IF i = 1 THEN Abs(a[1] - b[1])
    ELSE LET m == MaxAbs(a, b, i - 1)
             d == Abs(a[i] - b[i])
         IN  IF d > m THEN d ELSE m

\* np.max(np.abs(train - ideal))
MaxAbsDiff(y_train, y_ideal) == MaxAbs(y_train, y_ideal, Len(y_train))

\* a deviation already stored for best_func is kept
StoreDeviationOnce(md, best_func, dev) ==
    IF best_func \in DOMAIN md THEN md ELSE Put(md, best_func, dev)

\* the deviation is added to the one already stored
StoreDeviationAdded(md, best_func, dev) ==
    Put(md, best_func, IF best_func \in DOMAIN md THEN md[best_func] + dev ELSE dev)

\* the deviation is not stored
StoreDeviationSkipped(md, best_func, dev) == md

\* self.max_deviation[best_func] = np.max(deviations)
StoreDeviation(md, best_func, dev) == Put(md, best_func, dev)

\* the loop over best_fits.items(); self.ideal_data[None] raises KeyError
RECURSIVE DeviationLoop(_, _, _, _, _)
DeviationLoop(train, ideal, fits, i, st) ==
    IF i > Len(fits) THEN st
    ELSE LET e == fits[i]
             sel == Put(st.sel, e.train, e.ideal)
         IN  IF e.ideal = None
             THEN [sel |-> sel, md |-> st.md, raised |-> TRUE]
             ELSE DeviationLoop(train, ideal, fits, i + 1,
                      [sel |-> sel,
                       md |-> StoreDeviation(st.md, e.ideal,
                                  MaxAbsDiff(train.y[e.train], ideal.y[e.ideal])),
                       raised |-> FALSE])

\* ------------------------------------------------- map_test_data (mapping.py)
\* the first row stands in when no row has the x of the test point
LookupOrFirst(ideal, x_test, ideal_func, i) ==
    IF \E r \in 1..NumRows(ideal) : ideal.x[r] = x_test
    THEN <<ideal.y[ideal_func][CHOOSE r \in 1..NumRows(ideal) : ideal.x[r] = x_test]>>
    ELSE <<ideal.y[ideal_func][1]>>

\* self.ideal_data.loc[self.ideal_data['x'] == x_test, ideal_func].values
RECURSIVE Lookup(_, _, _, _)
Lookup(ideal, x_test, ideal_func, i) ==
    IF i > NumRows(ideal) THEN <<>>
    ELSE IF ideal.x[i] = x_test
         THEN <<ideal.y[ideal_func][i]>> \o Lookup(ideal, x_test, ideal_func, i + 1)
         ELSE Lookup(ideal, x_test, ideal_func, i + 1)

\* the bound made strict
WithinThresholdStrict(deviation, maxdev) == deviation * deviation < 2 * maxdev * maxdev

\* one unit of slack added to the bound
WithinThresholdLoose(deviation, maxdev) == deviation <= maxdev + 1

\* the factor 2 in place of sqrt(2)
WithinThresholdDoubled(deviation, maxdev) == deviation <= 2 * maxdev

\* deviation <= sqrt_2 * self.max_deviation[ideal_func]
WithinThreshold(deviation, maxdev) == deviation * deviation <= 2 * maxdev * maxdev

\* the threshold test left out
AcceptsNearest(deviation, maxdev, min_deviation) == deviation < min_deviation

\* deviation <= threshold and deviation < min_deviation
Accepts(deviation, maxdev, min_deviation) ==
    WithinThreshold(deviation, maxdev) /\ deviation < min_deviation

\* the loop over set(self.selected_functions.values()) for one test row,
\* taken in the iteration order `order`
RECURSIVE CandidateLoop(_, _, _, _, _, _)
CandidateLoop(ideal, md, row, order, k, acc) ==
    IF acc.raised \/ k > Len(order) THEN acc
    ELSE LET f == order[k]
         IN  IF f = None THEN [acc EXCEPT !.raised = TRUE]
             ELSE LET y_ideal == Lookup(ideal, row.x, f, 1)
                  IN  IF Len(y_ideal) = 0
                      THEN CandidateLoop(ideal, md, row, order, k + 1, acc)
                      ELSE IF f \notin DOMAIN md THEN [acc EXCEPT !.raised = TRUE]
                      ELSE LET deviation == Abs(row.y - y_ideal[1])
                           IN  IF Accepts(deviation, md[f], acc.min_deviation)
                               THEN CandidateLoop(ideal, md, row, order, k + 1,
                                        [acc EXCEPT !.min_deviation = deviation,
                                                    !.best_match = f])
                               ELSE CandidateLoop(ideal, md, row, order, k + 1, acc)

\* min_deviation starts at 0
MapRowFromZero(ideal, md, row, order) ==
    CandidateLoop(ideal, md, row, order, 1,
        [min_deviation |-> 0, best_match |-> None, raised |-> FALSE])

\* one iteration of the loop over test_data.iterrows()
MapRow(ideal, md, row, order) ==
    CandidateLoop(ideal, md, row, order, 1,
        [min_deviation |-> Inf, best_match |-> None, raised |-> FALSE])

\* an unassigned row reports deviation 0
ResultRowZeroed(row, acc) ==
    [x |-> row.x, y_test |-> row.y,
     deviation |-> IF acc.best_match = None THEN 0 ELSE acc.min_deviation,
     ideal_function |-> acc.best_match]

\* results.append({...})
ResultRow(row, acc) ==
    [x |-> row.x, y_test |-> row.y, deviation |-> acc.min_deviation,
     ideal_function |-> acc.best_match]

\* the rows in reverse order
MapRowsReversed(ideal, md, test, order) ==
    [i \in 1..Len(test) |->
        ResultRow(test[Len(test) + 1 - i], MapRow(ideal, md, test[Len(test) + 1 - i], order))]

\* the DataFrame map_test_data returns, as the sequence of its rows
MapRows(ideal, md, test, order) ==
    [i \in 1..Len(test) |-> ResultRow(test[i], MapRow(ideal, md, test[i], order))]

MapRaises(ideal, md, test, order) ==
    \E i \in 1..Len(test) : MapRow(ideal, md, test[i], order).raised

\* ------------------------------------------------------------ return values
\* ret is the outcome of the last method call: which method, on which instance,
\* whether an exception left it, the value returned, and how many calls of
\* compute_max_deviation were made in a row up to it; for csv_to_table, inst
\* is the table, csv the file, ok says that True was returned and had that
\* the table existed when the call was made
NoRet == [op |-> "none", inst |-> "none", raised |-> FALSE, fits |-> <<>>,
          rows |-> <<>>, streak |-> 0, csv |-> "none", ok |-> FALSE,
          had |-> FALSE]

Streak(m) ==
    IF ret.op = "compute_max_deviation" /\ ret.inst = m
    THEN Min2(ret.streak + 1, MaxStreak) ELSE 1

\* ----------------------------------------------------------------- methods
\* TestDataMapper.__init__: the tables are read, both dicts start empty
Construct(m) ==
    /\ selected_functions' = [selected_functions EXCEPT ![m] = EmptyDict]
    /\ max_deviation' = [max_deviation EXCEPT ![m] = EmptyDict]
    /\ computed' = [computed EXCEPT ![m] = FALSE]
    /\ live' = live \cup {m}

\* the best fits are also written to selected_functions
find_best_fit_selecting(m) ==
    /\ m \in live
    /\ ret' = [op |-> "find_best_fit", inst |-> m, raised |-> FALSE,
               fits |-> FindBestFit(train_data, ideal_data), rows |-> <<>>,
               streak |-> 0, csv |-> "none", ok |-> FALSE,
               had |-> FALSE]
    /\ selected_functions' =
           [selected_functions EXCEPT ![m] =
               [c \in 1..NumCols(train_data) |-> BestFitOf(train_data, ideal_data, c).ideal]]
    /\ UNCHANGED <<live, max_deviation, computed>>

find_best_fit(m) ==
    /\ m \in live
    /\ ret' = [op |-> "find_best_fit", inst |-> m, raised |-> FALSE,
               fits |-> FindBestFit(train_data, ideal_data), rows |-> <<>>,
               streak |-> 0, csv |-> "none", ok |-> FALSE,
               had |-> FALSE]
    /\ UNCHANGED <<live, selected_functions, max_deviation, computed>>

compute_max_deviation(m) ==
    /\ m \in live
    /\ LET st == DeviationLoop(train_data, ideal_data,
                     FindBestFit(train_data, ideal_data), 1,
                     [sel |-> selected_functions[m], md |-> max_deviation[m],
                      raised |-> FALSE])
       IN  /\ selected_functions' = [selected_functions EXCEPT ![m] = st.sel]
           /\ max_deviation' = [max_deviation EXCEPT ![m] = st.md]
           /\ computed' = [computed EXCEPT ![m] = computed[m] \/ ~st.raised]
           /\ ret' = [op |-> "compute_max_deviation", inst |-> m,
                      raised |-> st.raised, fits |-> <<>>, rows |-> <<>>,
                      streak |-> Streak(m), csv |-> "none",
                      ok |-> FALSE, had |-> FALSE]
    /\ UNCHANGED live

map_test_data(m) ==
    /\ m \in live
    /\ \E order \in Orders(DictValues(selected_functions[m])) :
          LET raised == MapRaises(ideal_data, max_deviation[m], test_data, order)
          IN  ret' = [op |-> "map_test_data", inst |-> m, raised |-> raised,
                      fits |-> <<>>,
                      rows |-> IF raised THEN <<>>
                               ELSE MapRows(ideal_data, max_deviation[m], test_data, order),
                      streak |-> 0, csv |-> "none", ok |-> FALSE,
               had |-> FALSE]
    /\ UNCHANGED <<live, selected_functions, max_deviation, computed>>

\* an exception nothing catches ends the run
After(next) == IF ret'.raised THEN "raised" ELSE next

\* ------------------------------------------------------------------ inputs
Grid(n) == [i \in 1..n |-> i]

\* the tables of n rows and k y columns with cells in 0..maxVal
TablesOf(n, k, maxVal) ==
    {[x |-> Grid(n), y |-> cols] : cols \in [1..k -> [1..n -> 0..maxVal]]}

\* the test tables of t points with x in 1..maxX and y in 0..maxVal
TestTablesOf(t, maxX, maxVal) == [1..t -> [x : 1..maxX, y : 0..maxVal]]

CsvFiles == {"train", "ideal", "test"}

\* the number of y cells of a table
Cells(df) == NumCols(df) * NumRows(df)

\* ------------------------------------------- csv_to_table (CSV_DB.py)
\* the tables main() loads the three files into
TableOf(csv) ==
    CASE csv = "train" -> "Training_data"
      [] csv = "ideal" -> "Ideal_functions_data"
      [] csv = "test" -> "Test_data"

TableNames == {TableOf(csv) : csv \in CsvFiles}

\* "test" in csv_file.lower()
HasTest(csv) == csv = "test"

\* the rows pd.read_csv reads from a file holding a curve table
CurveRows(df) ==
    [i \in 1..NumRows(df) |-> <<df.x[i]>> \o [k \in 1..NumCols(df) |-> df.y[k][i]]]

\* the rows pd.read_csv reads from a file holding test points
PointRows(pts) == [i \in 1..Len(pts) |-> <<pts[i].x, pts[i].y>>]

\* the rows of a CSV file
CsvRows(csv, train, ideal, test) ==
    CASE csv = "train" -> CurveRows(train)
      [] csv = "ideal" -> CurveRows(ideal)
      [] csv = "test" -> PointRows(test)

\* a table that does not exist
Absent == [exists |-> FALSE, rows |-> <<>>]

Present(rows) == [exists |-> TRUE, rows |-> rows]

\* the table is left as it was
DropTableSkipped(d, table_name) == d

\* DROP TABLE IF EXISTS
DropTable(d, table_name) == [d EXCEPT ![table_name] = Absent]

\* chunk.to_sql(table_name, ..., if_exists="append"): the table is created
\* by the first chunk written to it
AppendChunk(d, table_name, chunk) ==
    [d EXCEPT ![table_name] =
        IF d[table_name].exists THEN Present(d[table_name].rows \o chunk)
        ELSE Present(chunk)]

\* the loop over pd.read_csv(csv_file, chunksize=1), chunks i to n
RECURSIVE LoadChunks(_, _, _, _, _)
LoadChunks(d, table_name, rows, i, n) ==
    IF i > n THEN d
    ELSE LoadChunks(AppendChunk(d, table_name, <<rows[i]>>), table_name, rows, i + 1, n)

\* df.to_sql(table_name, conn, if_exists='replace')
ReplaceTable(d, table_name, rows) == [d EXCEPT ![table_name] = Present(rows)]

\* the file is looked for before the table is dropped
CsvToTableCheckingFirst(d, fs, csv_file, table_name, rows, bad) ==
    LET dropped == DropTable(d, table_name)
    IN  IF csv_file \notin fs THEN [db |-> d, ok |-> FALSE]
        ELSE IF HasTest(csv_file)
             THEN IF bad = 0
                  THEN [db |-> LoadChunks(dropped, table_name, rows, 1, Len(rows)),
                        ok |-> TRUE]
                  ELSE [db |-> LoadChunks(dropped, table_name, rows, 1, bad - 1),
                        ok |-> FALSE]
             ELSE IF bad = 0
                  THEN [db |-> ReplaceTable(dropped, table_name, rows), ok |-> TRUE]
                  ELSE [db |-> dropped, ok |-> FALSE]

\* csv_to_table(csv_file, table_name) on database d with the files fs present;
\* csv_file holds `rows`, of which row `bad` cannot be parsed (0: every row
\* can).  Every exception is caught: the call then returns None.  A file of
\* no rows is read as one chunk of no rows.
CsvToTable(d, fs, csv_file, table_name, rows, bad) ==
    LET dropped == DropTable(d, table_name)
    IN  IF csv_file \notin fs THEN [db |-> dropped, ok |-> FALSE]
        ELSE IF HasTest(csv_file)
             THEN IF bad = 0
                  THEN [db |-> IF Len(rows) = 0
                               THEN AppendChunk(dropped, table_name, <<>>)
                               ELSE LoadChunks(dropped, table_name, rows, 1, Len(rows)),
                        ok |-> TRUE]
                  ELSE [db |-> LoadChunks(dropped, table_name, rows, 1, bad - 1),
                        ok |-> FALSE]
             ELSE IF bad = 0
                  THEN [db |-> ReplaceTable(dropped, table_name, rows), ok |-> TRUE]
                  ELSE [db |-> dropped, ok |-> FALSE]

\* how many calls of csv_to_table with these arguments were made in a row
LoadStreak(csv_file, table_name) ==
    IF ret.op = "csv_to_table" /\ ret.csv = csv_file /\ ret.inst = table_name
    THEN Min2(ret.streak + 1, MaxStreak) ELSE 1

csv_to_table(csv_file, table_name, bad) ==
    LET out == CsvToTable(db, files, csv_file, table_name,
                          CsvRows(csv_file, train_data, ideal_data, test_data), bad)
    IN  /\ db' = out.db
        /\ ret' = [op |-> "csv_to_table", inst |-> table_name, raised |-> FALSE,
                   fits |-> <<>>, rows |-> <<>>,
                   streak |-> LoadStreak(csv_file, table_name), csv |-> csv_file,
                   ok |-> out.ok, had |-> db[table_name].exists]

\* the database after main() has loaded the three files
RECURSIVE LoadAll(_, _, _, _, _, _)
LoadAll(d, fs, todo, train, ideal, test) ==
    IF todo = <<>> THEN d
    ELSE LoadAll(CsvToTable(d, fs, todo[1], TableOf(todo[1]),
                            CsvRows(todo[1], train, ideal, test), 0).db,
                 fs, Tail(todo), train, ideal, test)

Datasets == <<"train", "ideal", "test">>

EmptyDb == [t \in TableNames |-> Absent]

\* a constructed TestDataMapper over the given tables
Constructed(trains, ideals, tests) ==
    /\ files = CsvFiles
    /\ loaded = CsvFiles
    /\ train_data \in trains
    /\ ideal_data \in ideals
    /\ test_data \in tests
    /\ db = LoadAll(EmptyDb, CsvFiles, Datasets, train_data, ideal_data, test_data)
    /\ live = {"test_mapper"}
    /\ selected_functions = [m \in Mappers |-> EmptyDict]
    /\ max_deviation = [m \in Mappers |-> EmptyDict]
    /\ computed = [m \in Mappers |-> FALSE]
    /\ mapped_data = <<>>
    /\ saved = <<>>
    /\ ret = NoRet
    /\ pc = "harness"

\* ----------------------------------------------------- the mapper harness
\* the methods of one TestDataMapper, called in any order
CallFindBestFit ==
    /\ pc = "harness"
    /\ find_best_fit("test_mapper")
    /\ UNCHANGED <<outside, pc>>

CallComputeMaxDeviation ==
    /\ pc = "harness"
    /\ compute_max_deviation("test_mapper")
    /\ pc' = After("harness")
    /\ UNCHANGED outside

CallMapTestData ==
    /\ pc = "harness"
    /\ map_test_data("test_mapper")
    /\ pc' = After("harness")
    /\ UNCHANGED outside

Next == CallFindBestFit \/ CallComputeMaxDeviation \/ CallMapTestData

\* tables of up to MaxRows rows, up to MaxTrain training and MaxIdeal ideal
\* curves and up to MaxTest test points, of at most MaxCells cells in all: the
\* y cells of the two curve tables and the x and y of every test point
Init ==
    \E nT, nI \in 1..MaxRows, k \in 1..MaxTrain, j \in 0..MaxIdeal, t \in 0..MaxTest :
        /\ k * nT + j * nI + 2 * t <= MaxCells
        /\ Constructed(TablesOf(nT, k, MaxVal), TablesOf(nI, j, MaxVal),
                       TestTablesOf(t, MaxRows, MaxVal))

Spec == Init /\ [][Next]_vars

\* full tables: MaxTrain training curves and MaxIdeal ideal curves of MaxRows
\* rows, one test point
InitDeep ==
    Constructed(TablesOf(MaxRows, MaxTrain, MaxVal), TablesOf(MaxRows, MaxIdeal, MaxVal),
                TestTablesOf(1, MaxRows, MaxVal))

SpecDeep == InitDeep /\ [][Next]_vars

\* up to WideTrain training curves of one row, at most one ideal curve of one
\* row, no test point
InitRank ==
    \E k \in 1..WideTrain, j \in 0..1 :
        Constructed(TablesOf(1, k, MaxVal), TablesOf(1, j, MaxVal),
                    TestTablesOf(0, 1, MaxVal))

SpecRank == InitRank /\ [][Next]_vars

\* up to MaxBatch test points, at x = 1 and at x = 2, over one training curve and
\* at most one ideal curve of one row (x = 1)
InitBatch ==
    \E j \in 0..1, t \in 0..MaxBatch :
        Constructed(TablesOf(1, 1, BatchVal), TablesOf(1, j, BatchVal),
                    TestTablesOf(t, 2, BatchVal))

SpecBatch == InitBatch /\ [][Next]_vars

\* one training curve and one ideal curve of up to LongRows rows, no test point
InitLong ==
    \E n \in 1..LongRows :
        Constructed(TablesOf(n, 1, BatchVal), TablesOf(n, 1, BatchVal),
                    TestTablesOf(0, 1, BatchVal))

SpecLong == InitLong /\ [][Next]_vars

\* ------------------------------------------------------- main() (main.py)
\* only train.csv is looked for
MainCheckFilesFirstOnly ==
    /\ pc = "check_files"
    /\ pc' = IF "train" \in files THEN "load" ELSE "raised"
    /\ UNCHANGED <<files, loaded, db, tables, live, selected_functions, max_deviation,
                   computed, mapped_data, saved, ret>>

\* lines 38-40: a missing CSV file raises FileNotFoundError
MainCheckFiles ==
    /\ pc = "check_files"
    /\ pc' = IF files = CsvFiles THEN "load" ELSE "raised"
    /\ UNCHANGED <<files, loaded, db, tables, live, selected_functions, max_deviation,
                   computed, mapped_data, saved, ret>>

\* lines 43-49: for every dataset a DatasetManager is constructed and
\* load_data calls csv_to_table
MainLoad ==
    /\ pc = "load"
    /\ loaded' = CsvFiles
    /\ db' = LoadAll(db, files, Datasets, train_data, ideal_data, test_data)
    /\ pc' = "construct"
    /\ UNCHANGED <<files, tables, live, selected_functions, max_deviation,
                   computed, mapped_data, saved, ret>>

\* lines 60-98: the tables are read back, test_mapper is constructed
MainConstruct ==
    /\ pc = "construct"
    /\ Construct("test_mapper")
    /\ pc' = "compute"
    /\ UNCHANGED <<outside, ret>>

\* line 100
MainCompute ==
    /\ pc = "compute"
    /\ compute_max_deviation("test_mapper")
    /\ pc' = After("map")
    /\ UNCHANGED outside

\* line 102
MainMap ==
    /\ pc = "map"
    /\ map_test_data("test_mapper")
    /\ mapped_data' = ret'.rows
    /\ pc' = After("save")
    /\ UNCHANGED <<files, loaded, db, tables, saved>>

\* line 104: save_to_database replaces the output table
MainSave ==
    /\ pc = "save"
    /\ saved' = mapped_data
    /\ pc' = "load_data"
    /\ UNCHANGED <<files, loaded, db, tables, live, selected_functions, max_deviation,
                   computed, mapped_data, ret>>

\* load_data, visualization.py lines 42-43: a second mapper is constructed
VizConstruct ==
    /\ pc = "load_data"
    /\ Construct("viz_mapper")
    /\ pc' = "viz_map"
    /\ UNCHANGED <<outside, ret>>

\* load_data, visualization.py line 44
VizMap ==
    /\ pc = "viz_map"
    /\ map_test_data("viz_mapper")
    /\ mapped_data' = ret'.rows
    /\ pc' = After("viz_fit")
    /\ UNCHANGED <<files, loaded, db, tables, saved>>

\* load_data, visualization.py line 45
VizFit ==
    /\ pc = "viz_fit"
    /\ find_best_fit("viz_mapper")
    /\ pc' = "plot"
    /\ UNCHANGED outside

\* the two plots read columns y1..y4 of the training table, y11, y41, y42 and
\* y48 of the ideal table, x and y_test of the mapped rows, and every best fit's
\* ideal column
PlotsRun ==
    /\ NumCols(train_data) >= 4
    /\ NumCols(ideal_data) >= 48
    /\ Len(mapped_data) >= 1
    /\ \A i \in 1..Len(ret.fits) : ret.fits[i].ideal # None

\* lines 112-113
MainPlot ==
    /\ pc = "plot"
    /\ pc' = IF PlotsRun THEN "done" ELSE "raised"
    /\ UNCHANGED <<files, loaded, db, tables, live, selected_functions, max_deviation,
                   computed, mapped_data, saved, ret>>

NextMain ==
    \/ MainCheckFiles
    \/ MainLoad
    \/ MainConstruct
    \/ MainCompute
    \/ MainMap
    \/ MainSave
    \/ VizConstruct
    \/ VizMap
    \/ VizFit
    \/ MainPlot

\* the database an earlier run left behind: every table holds one old row
OldDb == [t \in TableNames |-> Present(<<<<0, 0>>>>)]

\* main() is started over any set of CSV files present, on a new database or
\* on the database of an earlier run; the tables have one row, the ideal
\* table at most one curve
InitMain ==
    /\ files \in SUBSET CsvFiles
    /\ loaded = {}
    /\ db \in {EmptyDb, OldDb}
    /\ \E j \in 0..1, t \in 0..MaxTest :
          /\ train_data \in TablesOf(1, 1, MaxVal)
          /\ ideal_data \in TablesOf(1, j, MaxVal)
          /\ test_data \in TestTablesOf(t, MaxRows, MaxVal)
    /\ live = {}
    /\ selected_functions = [m \in Mappers |-> EmptyDict]
    /\ max_deviation = [m \in Mappers |-> EmptyDict]
    /\ computed = [m \in Mappers |-> FALSE]
    /\ mapped_data = <<>>
    /\ saved = <<>>
    /\ ret = NoRet
    /\ pc = "check_files"

SpecMain == InitMain /\ [][NextMain]_vars

\* ------------------------------------------- the database harness
\* csv_to_table called with any file, any table, any row of the file unreadable
CallCsvToTable ==
    /\ pc = "harness"
    /\ \E csv_file \in CsvFiles, table_name \in TableNames :
          \E bad \in 0..Len(CsvRows(csv_file, train_data, ideal_data, test_data)) :
              csv_to_table(csv_file, table_name, bad)
    /\ UNCHANGED <<files, loaded, tables, live, selected_functions, max_deviation,
                   computed, mapped_data, saved, pc>>

NextDb == CallCsvToTable

\* t test points on the x grid
PointsOnGrid(t) == [i \in 1..t |-> [x |-> i, y |-> 0]]

\* any set of the three files present, train.csv of one row, ideal.csv of
\* two rows, test.csv of up to MaxBatch rows, over a new database or the
\* database of an earlier run
InitDb ==
    /\ files \in SUBSET CsvFiles
    /\ loaded = {}
    /\ db \in {EmptyDb, OldDb}
    /\ train_data \in TablesOf(1, 1, 0)
    /\ ideal_data \in TablesOf(2, 1, 0)
    /\ \E t \in 1..MaxBatch : test_data = PointsOnGrid(t)
    /\ live = {}
    /\ selected_functions = [m \in Mappers |-> EmptyDict]
    /\ max_deviation = [m \in Mappers |-> EmptyDict]
    /\ computed = [m \in Mappers |-> FALSE]
    /\ mapped_data = <<>>
    /\ saved = <<>>
    /\ ret = NoRet
    /\ pc = "harness"

SpecDb == InitDb /\ [][NextDb]_vars

\* ------------------------------------------------ reference definitions
\* what the claims speak of, written without the operators of the model
RECURSIVE RefSum(_, _)
RefSum(f, S) ==
    IF S = {} THEN 0
    ELSE LET i == CHOOSE q \in S : TRUE IN f[i] + RefSum(f, S \ {i})

RefSetMax(S) == CHOOSE v \in S : \A w \in S : w <= v

RefSetMin(S) == CHOOSE v \in S : \A w \in S : v <= w

\* the sum of squared errors of training curve c against ideal curve d
RefSSE(c, d) ==
    RefSum([i \in DOMAIN train_data.y[c] |-> (train_data.y[c][i] - ideal_data.y[d][i]) ^ 2],
           DOMAIN train_data.y[c])

\* the ideal curves whose length equals the length of training curve c
RefMatching(c) ==
    {d \in DOMAIN ideal_data.y : Len(ideal_data.y[d]) = Len(train_data.y[c])}

\* the least sum of squared errors of c against a matching ideal curve
RefMinSSE(c) ==
    IF RefMatching(c) = {} THEN Inf
    ELSE RefSetMin({RefSSE(c, d) : d \in RefMatching(c)})

\* the largest absolute pointwise difference between c and d
RefMaxDev(c, d) ==
    RefSetMax({Abs(train_data.y[c][i] - ideal_data.y[d][i]) : i \in DOMAIN train_data.y[c]})

\* the selected functions of the harness's mapper, its deviation table
RefSelected == {selected_functions["test_mapper"][c] : c \in DOMAIN selected_functions["test_mapper"]}

RefMaxDeviation == max_deviation["test_mapper"]

\* ideal function f has a row at the x of test point pt
RefHasRow(f, pt) == \E r \in DOMAIN ideal_data.x : ideal_data.x[r] = pt.x

\* |y - y_ideal_f(x)|
RefDev(f, pt) ==
    Abs(pt.y - ideal_data.y[f][CHOOSE r \in DOMAIN ideal_data.x : ideal_data.x[r] = pt.x])

\* |y - y_ideal_f(x)| <= sqrt(2) * max_deviation[f]
RefEligible(f, pt) ==
    /\ f # None
    /\ RefHasRow(f, pt)
    /\ f \in DOMAIN RefMaxDeviation
    /\ RefDev(f, pt) ^ 2 <= 2 * RefMaxDeviation[f] ^ 2

\* the selected functions examined at pt: those with a row at its x
RefExamined(pt) == {f \in RefSelected : f # None /\ RefHasRow(f, pt)}

Returned(op) == ret.op = op /\ ~ret.raised

\* ------------------------------------------------------------------ claims
\* C1: every entry of find_best_fit's result records an ideal curve of the
\* training curve's length whose sum of squared errors against it is minimal
\* among the ideal curves of that length; an ideal curve of another length is
\* never recorded (the entry holds None only when no ideal curve matches).
C1_BestFitHasMinimalSSE ==
    Returned("find_best_fit") =>
        \A i \in 1..Len(ret.fits) :
            LET e == ret.fits[i]
            IN  IF RefMatching(e.train) = {} THEN e.ideal = None
                ELSE /\ e.ideal \in RefMatching(e.train)
                     /\ \A d \in RefMatching(e.train) :
                            RefSSE(e.train, e.ideal) <= RefSSE(e.train, d)

\* a later ideal column beat an earlier one of the same length
C1_Witness ==
    /\ Returned("find_best_fit")
    /\ \E i \in 1..Len(ret.fits) :
          /\ ret.fits[i].ideal = 2
          /\ RefSSE(ret.fits[i].train, 2) < RefSSE(ret.fits[i].train, 1)

\* C2: a test point that map_test_data assigns to f has f selected and
\* eligible, its deviation field is the deviation from f, and no eligible
\* selected function has a strictly smaller deviation at that point.
C2_AssignedIsBestEligible ==
    Returned("map_test_data") =>
        \A i \in 1..Len(ret.rows) :
            LET f == ret.rows[i].ideal_function
                pt == test_data[i]
            IN  f # None =>
                    /\ f \in RefSelected
                    /\ RefEligible(f, pt)
                    /\ ret.rows[i].deviation = RefDev(f, pt)
                    /\ \A g \in RefSelected :
                           RefEligible(g, pt) => RefDev(f, pt) <= RefDev(g, pt)

\* a point is assigned although an ineligible selected function is nearer
C2_Witness ==
    /\ Returned("map_test_data")
    /\ \E i \in 1..Len(ret.rows) :
          /\ ret.rows[i].ideal_function # None
          /\ \E g \in RefExamined(test_data[i]) :
                /\ ~RefEligible(g, test_data[i])
                /\ RefDev(g, test_data[i]) < ret.rows[i].deviation

\* C3: in the pipeline of main, every call of map_test_data on a mapper comes
\* after compute_max_deviation has completed on that mapper.
C3_MapOnlyAfterCompute ==
    ret.op = "map_test_data" => computed[ret.inst]

\* C4 as stated: after compute_max_deviation, max_deviation[f] is the largest
\* absolute difference between c and f for every pair (c, f) of
\* selected_functions, also when several training curves selected f.
C4_EveryPairHasItsDeviation ==
    Returned("compute_max_deviation") =>
        \A c \in DOMAIN selected_functions["test_mapper"] :
            LET f == selected_functions["test_mapper"][c]
            IN  /\ f \in DOMAIN RefMaxDeviation
                /\ RefMaxDeviation[f] = RefMaxDev(c, f)

\* the training curve written last for f: the last one, in the order of
\* find_best_fit's result, that selected f
RefLastSelector(f) ==
    LET fits == FindBestFit(train_data, ideal_data)
        last == RefSetMax({i \in 1..Len(fits) : fits[i].ideal = f})
    IN  fits[last].train

\* C4 as amended: after compute_max_deviation returns, max_deviation[f] is,
\* for every selected f, the largest absolute difference between f and the
\* training curve that comes last in find_best_fit's result among those that
\* selected f.
C4_LastPairHasItsDeviation ==
    Returned("compute_max_deviation") =>
        /\ DOMAIN RefMaxDeviation = RefSelected
        /\ \A f \in RefSelected :
               RefMaxDeviation[f] = RefMaxDev(RefLastSelector(f), f)

\* two training curves selected the same f with different deviations
C4_Witness ==
    /\ Returned("compute_max_deviation")
    /\ \E c1, c2 \in DOMAIN selected_functions["test_mapper"] :
          /\ c1 # c2
          /\ selected_functions["test_mapper"][c1] = selected_functions["test_mapper"][c2]
          /\ RefMaxDev(c1, selected_functions["test_mapper"][c1])
                 # RefMaxDev(c2, selected_functions["test_mapper"][c2])

\* C5: find_best_fit returns at most 4 entries in ascending order of MSE, no
\* training curve left out has a smaller error than one returned, and with 4
\* or fewer training curves each of them has an entry.
C5_TopFourByMse ==
    Returned("find_best_fit") =>
        LET r == ret.fits
            in == {r[i].train : i \in 1..Len(r)}
            all == DOMAIN train_data.y
        IN  /\ Len(r) <= 4
            /\ Cardinality(in) = Len(r)
            /\ in \subseteq all
            /\ \A i, j \in 1..Len(r) : i < j => r[i].mse <= r[j].mse
            /\ \A c \in all \ in : \A b \in in : RefMinSSE(b) <= RefMinSSE(c)
            /\ Cardinality(all) <= 4 => in = all

\* five training curves: the one left out is strictly worse than the four
\* returned, and the order returned is not the column order
C5_Witness ==
    /\ Returned("find_best_fit")
    /\ Len(ret.fits) = 4
    /\ \E c \in DOMAIN train_data.y :
          /\ \A i \in 1..4 : ret.fits[i].train # c /\ RefMinSSE(ret.fits[i].train) < RefMinSSE(c)
    /\ \E i \in 1..3 : ret.fits[i].train > ret.fits[i + 1].train

\* C6: map_test_data returns one row per test point, the i-th row carrying
\* the x and y of the i-th test point.
C6_OneRowPerTestPoint ==
    ret.op = "map_test_data" =>
        /\ ~ret.raised
        /\ Len(ret.rows) = Len(test_data)
        /\ \A i \in 1..Len(test_data) :
               /\ ret.rows[i].x = test_data[i].x
               /\ ret.rows[i].y_test = test_data[i].y

\* three different test points, one assigned, one not
C6_Witness ==
    /\ Returned("map_test_data")
    /\ Len(ret.rows) = 3
    /\ test_data[1] # test_data[2] /\ test_data[2] # test_data[3]
    /\ test_data[1] # test_data[3]
    /\ \E i, j \in 1..3 :
          ret.rows[i].ideal_function # None /\ ret.rows[j].ideal_function = None

\* C7: a training curve with no ideal curve of its length has no entry in
\* find_best_fit's result: no entry holds None or an infinite MSE.
C7_NoMatchIsExcluded ==
    Returned("find_best_fit") =>
        \A i \in 1..Len(ret.fits) :
            /\ RefMatching(ret.fits[i].train) # {}
            /\ ret.fits[i].ideal # None
            /\ ret.fits[i].mse # Inf

\* C8: when some training curve has no ideal curve of its length, no call of
\* find_best_fit, compute_max_deviation or map_test_data raises.
C8_NoMatchRaisesNothing ==
    (\E c \in DOMAIN train_data.y : RefMatching(c) = {}) => ~ret.raised

\* C9 as stated: the row of a test point with no eligible function is
\* unassigned and its deviation is the least deviation among the candidates
\* examined, or no finite number when none was examined.
C9_UnassignedKeepsLeastDeviation ==
    Returned("map_test_data") =>
        \A i \in 1..Len(ret.rows) :
            LET pt == test_data[i]
            IN  (\A g \in RefSelected : ~RefEligible(g, pt)) =>
                    /\ ret.rows[i].ideal_function = None
                    /\ IF RefExamined(pt) # {}
                       THEN ret.rows[i].deviation =
                                RefSetMin({RefDev(g, pt) : g \in RefExamined(pt)})
                       ELSE ret.rows[i].deviation \notin 0..(Inf - 1)

\* C9 as amended: the row of a test point with no eligible function is
\* unassigned and its deviation is +infinity, whether or not a candidate
\* was examined.
C9_UnassignedHasInfiniteDeviation ==
    Returned("map_test_data") =>
        \A i \in 1..Len(ret.rows) :
            (\A g \in RefSelected : ~RefEligible(g, test_data[i])) =>
                /\ ret.rows[i].ideal_function = None
                /\ ret.rows[i].deviation = Inf

\* a candidate was examined at the point and none was eligible
C9_Witness ==
    /\ Returned("map_test_data")
    /\ \E i \in 1..Len(ret.rows) :
          /\ RefExamined(test_data[i]) # {}
          /\ \A g \in RefSelected : ~RefEligible(g, test_data[i])

\* C10: a call of compute_max_deviation that follows a call of
\* compute_max_deviation leaves selected_functions and max_deviation as the
\* first call left them.
C10_ComputeTwiceChangesNothing ==
    [][(Returned("compute_max_deviation") /\ ret'.op = "compute_max_deviation")
          => (selected_functions' = selected_functions /\ max_deviation' = max_deviation)]_vars

\* compute_max_deviation was called twice in a row and stored a deviation
C10_Witness ==
    /\ Returned("compute_max_deviation")
    /\ ret.streak >= 2
    /\ \E f \in DOMAIN RefMaxDeviation : RefMaxDeviation[f] > 0

\* C11: a test point whose y is exactly the value, at its x, of a selected
\* ideal function f with max_deviation[f] >= 0 gets deviation 0 and is assigned
\* to a selected function.
C11_ExactMatchIsAssigned ==
    Returned("map_test_data") =>
        \A i \in 1..Len(ret.rows) :
            (\E f \in RefExamined(test_data[i]) :
                 /\ RefDev(f, test_data[i]) = 0
                 /\ f \in DOMAIN RefMaxDeviation
                 /\ RefMaxDeviation[f] >= 0)
            => /\ ret.rows[i].deviation = 0
               /\ ret.rows[i].ideal_function \in RefSelected \ {None}

\* an exact match on a function whose max_deviation is 0
C11_Witness ==
    /\ Returned("map_test_data")
    /\ \E i \in 1..Len(ret.rows) :
          \E f \in RefExamined(test_data[i]) :
              /\ RefDev(f, test_data[i]) = 0
              /\ f \in DOMAIN RefMaxDeviation
              /\ RefMaxDeviation[f] = 0

\* the deviation of pt from every selected function is above sqrt(2) times
\* that function's max_deviation
RefAllAbove(pt) ==
    /\ RefSelected # {}
    /\ \A f \in RefSelected :
           /\ f \in RefExamined(pt)
           /\ f \in DOMAIN RefMaxDeviation
           /\ RefDev(f, pt) ^ 2 > 2 * RefMaxDeviation[f] ^ 2

\* C12: a test point whose deviation from every distinct selected function f
\* is strictly greater than sqrt(2) * max_deviation[f] gets an unassigned row.
C12_AllAboveIsUnassigned ==
    Returned("map_test_data") =>
        \A i \in 1..Len(ret.rows) :
            RefAllAbove(test_data[i]) => ret.rows[i].ideal_function = None

\* a point above the positive threshold of every selected function
C12_Witness ==
    /\ Returned("map_test_data")
    /\ \A f \in DOMAIN RefMaxDeviation : RefMaxDeviation[f] > 0
    /\ \E i \in 1..Len(ret.rows) : RefAllAbove(test_data[i])

\* C13: when one of train.csv, ideal.csv and test.csv does not exist, main
\* raises at the file check: no DatasetManager is constructed, no table is
\* dropped or written and no later step runs.
C13_MissingFileRaisesBeforeLoad ==
    files # CsvFiles =>
        /\ pc \in {"check_files", "raised"}
        /\ loaded = {}
        /\ db \in {EmptyDb, OldDb}
        /\ live = {}
        /\ ret = NoRet

\* main has raised over a database whose tables an earlier run had written,
\* with only test.csv missing
C13_Witness ==
    /\ files = CsvFiles \ {"test"}
    /\ pc = "raised"
    /\ db = OldDb

\* the rows of the file the last csv_to_table call was given
RefCsvRows == CsvRows(ret.csv, train_data, ideal_data, test_data)

\* C14: after csv_to_table has returned True, the table holds exactly the
\* rows of the CSV file, as many as the file has, for a file loaded row by
\* row and for a file loaded in one piece, whatever the table held before and
\* however often the load was repeated.
C14_TableHoldsTheCsvRows ==
    (ret.op = "csv_to_table" /\ ret.ok) =>
        /\ db[ret.inst].exists
        /\ db[ret.inst].rows = RefCsvRows
        /\ Len(db[ret.inst].rows) = Len(RefCsvRows)

\* a file of several rows was loaded row by row twice in a row
C14_Witness ==
    /\ ret.op = "csv_to_table"
    /\ ret.ok
    /\ HasTest(ret.csv)
    /\ ret.streak >= 2
    /\ Len(RefCsvRows) >= 2

\* C15: when several ideal curves of the training curve's length have the
\* same minimal SSE against it, find_best_fit records the first of them in the
\* column order of the ideal table.
C15_TieGoesToFirstColumn ==
    Returned("find_best_fit") =>
        \A i \in 1..Len(ret.fits) :
            LET e == ret.fits[i]
            IN  e.ideal # None =>
                    \A d \in RefMatching(e.train) :
                        RefSSE(e.train, d) = RefSSE(e.train, e.ideal) => e.ideal <= d

\* two different ideal curves tie for a training curve
C15_Witness ==
    /\ Returned("find_best_fit")
    /\ \E i \in 1..Len(ret.fits) :
          LET e == ret.fits[i]
          IN  /\ e.ideal = 1
              /\ 2 \in RefMatching(e.train)
              /\ ideal_data.y[1] # ideal_data.y[2]
              /\ RefSSE(e.train, 2) = RefSSE(e.train, 1)

\* C16: at a test point where several distinct eligible selected functions
\* have the same smallest deviation, map_test_data assigns the tied function
\* that is first in identifier order, whatever the run.
C16_TieGoesToFirstIdentifier ==
    Returned("map_test_data") =>
        \A i \in 1..Len(ret.rows) :
            LET f == ret.rows[i].ideal_function
                pt == test_data[i]
            IN  f # None =>
                    \A g \in RefSelected :
                        (RefEligible(g, pt) /\ RefDev(g, pt) = RefDev(f, pt)) => f <= g

\* C17 as stated: the error recorded for training curve c is exactly
\* SSE(c, d*) / n, and the entries are ranked by that exact value.
C17_MseIsExact ==
    Returned("find_best_fit") =>
        /\ \A i \in 1..Len(ret.fits) :
               LET e == ret.fits[i]
               IN  e.ideal # None =>
                       e.mse * Len(train_data.y[e.train]) = RefSSE(e.train, e.ideal) * Digits
        /\ \A i, j \in 1..Len(ret.fits) :
               i < j => RefMinSSE(ret.fits[i].train) <= RefMinSSE(ret.fits[j].train)

\* C17 as amended: the error recorded for training curve c is SSE(c, d*) / n
\* rounded to the nearest multiple of 1/10000, and the entries are ranked in
\* ascending order of the recorded value, equal values in training-column order.
C17_MseIsRoundedToFourDigits ==
    Returned("find_best_fit") =>
        /\ \A i \in 1..Len(ret.fits) :
               LET e == ret.fits[i]
                   n == Len(train_data.y[e.train])
               IN  e.ideal # None =>
                       2 * Abs(e.mse * n - RefSSE(e.train, e.ideal) * Digits) <= n
        /\ \A i, j \in 1..Len(ret.fits) :
               i < j => \/ ret.fits[i].mse < ret.fits[j].mse
                        \/ /\ ret.fits[i].mse = ret.fits[j].mse
                           /\ ret.fits[i].train < ret.fits[j].train

\* an error that is no multiple of 1/10000 was recorded, rounded up
C17_Witness ==
    /\ Returned("find_best_fit")
    /\ \E i \in 1..Len(ret.fits) :
          LET e == ret.fits[i]
          IN  /\ e.ideal # None
              /\ e.mse * Len(train_data.y[e.train]) > RefSSE(e.train, e.ideal) * Digits

\* the test point has no row at its x in the ideal table
RefNoRow(pt) == \A r \in DOMAIN ideal_data.x : ideal_data.x[r] # pt.x

\* sequence s without its i-th element
RefWithout(s, i) == [k \in 1..(Len(s) - 1) |-> IF k < i THEN s[k] ELSE s[k + 1]]

\* C18: a test point whose x has no row in the ideal table makes
\* map_test_data raise nothing and gets one unassigned row; the rows of the
\* other test points are the rows map_test_data gives without that point.
C18_MissingXIsUnassigned ==
    ret.op = "map_test_data" =>
        \A i \in 1..Len(test_data) :
            RefNoRow(test_data[i]) =>
                /\ ~ret.raised
                /\ Len(ret.rows) = Len(test_data)
                /\ ret.rows[i].x = test_data[i].x
                /\ ret.rows[i].y_test = test_data[i].y
                /\ ret.rows[i].ideal_function = None
                /\ \E order \in Orders(RefSelected) :
                       RefWithout(ret.rows, i) =
                           MapRows(ideal_data, RefMaxDeviation, RefWithout(test_data, i), order)

\* three test points: the second has no row at its x, the first and the third
\* are assigned
C18_Witness ==
    /\ Returned("map_test_data")
    /\ Len(ret.rows) = 3
    /\ RefNoRow(test_data[2])
    /\ ret.rows[1].ideal_function # None
    /\ ret.rows[3].ideal_function # None

\* C19: no call of find_best_fit, compute_max_deviation or map_test_data
\* changes the training, ideal or test table, and find_best_fit and
\* map_test_data leave selected_functions and max_deviation as they were.
C19_TablesAndDictsAreKept ==
    [][/\ tables' = tables
       /\ ret'.op \in {"find_best_fit", "map_test_data"} =>
              (selected_functions' = selected_functions /\ max_deviation' = max_deviation)]_vars

\* map_test_data has returned rows over a filled deviation table
C19_Witness ==
    /\ Returned("map_test_data")
    /\ DOMAIN RefMaxDeviation # {}
    /\ Len(ret.rows) >= 1

\* C20: on a mapper whose training curves all have an ideal curve of their
\* length, in every state every value of selected_functions is a key of
\* max_deviation, and map_test_data does not raise.
C20_SelectedHaveDeviations ==
    (\A c \in DOMAIN train_data.y : RefMatching(c) # {}) =>
        /\ RefSelected \subseteq DOMAIN RefMaxDeviation
        /\ ret.op = "map_test_data" => ~ret.raised

\* map_test_data has looked up the threshold of the function two training
\* curves selected
C20_Witness ==
    /\ Returned("map_test_data")
    /\ RefSelected # {}
    /\ Cardinality(DOMAIN selected_functions["test_mapper"]) = 2
    /\ \E i \in 1..Len(ret.rows) : RefExamined(test_data[i]) = RefSelected

\* C21: map_test_data on a mapper on which compute_max_deviation was never
\* called raises nothing and returns one row per test point, each with a null
\* ideal function and deviation +infinity.
C21_MapBeforeComputeIsAllUnassigned ==
    (ret.op = "map_test_data" /\ ~computed[ret.inst]) =>
        /\ ~ret.raised
        /\ Len(ret.rows) = Len(test_data)
        /\ \A i \in 1..Len(ret.rows) :
               /\ ret.rows[i].ideal_function = None
               /\ ret.rows[i].deviation = Inf

\* mapped before compute, a test point that lies exactly on an ideal curve
C21_Witness ==
    /\ Returned("map_test_data")
    /\ ~computed[ret.inst]
    /\ \E i \in 1..Len(ret.rows) :
          \E f \in DOMAIN ideal_data.y, r \in DOMAIN ideal_data.x :
              ideal_data.x[r] = test_data[i].x /\ ideal_data.y[f][r] = test_data[i].y

\* C22: in every row map_test_data returns, the ideal function is null or a
\* value of selected_functions, and it is null exactly when the deviation of
\* the row is +infinity.
C22_NullExactlyWhenInfinite ==
    Returned("map_test_data") =>
        \A i \in 1..Len(ret.rows) :
            /\ ret.rows[i].ideal_function \in RefSelected \cup {None}
            /\ ret.rows[i].ideal_function = None <=> ret.rows[i].deviation = Inf

\* one row assigned with a positive deviation, another row unassigned
C22_Witness ==
    /\ Returned("map_test_data")
    /\ \E i, j \in 1..Len(ret.rows) :
          /\ ret.rows[i].ideal_function # None
          /\ ret.rows[i].deviation > 0
          /\ ret.rows[j].ideal_function = None

====
